---- MODULE Spec2Model ----
(***************************************************************************)
(* The job pipeline of the podcast analyzer: one session of the session    *)
(* store (lib/database), the audio pipeline (lib/processing/               *)
(* audio-pipeline.ts), the process route that starts it, the transcribe    *)
(* route with its cancellation maps, and the analyze route.                *)
(*                                                                         *)
(* Every `await` of the code is a point where other requests and runs are  *)
(* served.  A store call that a run awaits takes effect in one step of its *)
(* own; the synchronous code around it belongs to the step that resumes    *)
(* the run.  Strings are modelled as sequences of string pieces, so that   *)
(* concatenation is \o and the absent value (null, undefined) is << >>.    *)
(***************************************************************************)
EXTENDS Integers, Sequences, FiniteSets, TLC

VARIABLES
    USE_MOCK_DB,    \* the store is the in-memory mock (no DATABASE_URL), else Prisma
    currentProcessingUrl,  \* global.currentProcessingUrl: the URL of the last job started
    reported,       \* what the pipeline last handed to its onProgress callback
    created,        \* the session exists in mockData.podcastSessions
    session,        \* the PodcastSession record of the one session id
    pipe,           \* the pipeline run of the session (processAudioAsync)
    activeTranscriptions,         \* the map has an entry (true) for the session id
    activeTranscriptionServices,  \* the run whose service the map holds, 0: no entry
    trRuns,         \* the transcribe route's requests and the runs they start
    pendingWrites,  \* progress writes of the callback the store has not applied yet
    cancelWrite,    \* a DELETE handler awaits its write of the cancelled status
    anRuns,         \* the analyze route's requests and the runs they start
    failures,       \* store calls that have thrown so far
    resp            \* what this step lets out, if anything: an HTTP response
                    \* [op, code], or a promise rejection that nothing handles

vars == <<USE_MOCK_DB, currentProcessingUrl, reported, created, session, pipe, activeTranscriptions, activeTranscriptionServices,
          trRuns, pendingWrites, cancelWrite, anRuns, failures, resp>>

\* what no route changes once a job has been started on the session
envVars == <<USE_MOCK_DB, currentProcessingUrl, reported>>
pipeVars == <<envVars, created, pipe>>
registryVars == <<activeTranscriptions, activeTranscriptionServices>>
\* what the transcribe route adds to the state
transcribeVars == <<registryVars, trRuns, pendingWrites, cancelWrite>>

(***************************************************************************)
(* Bounds                                                                  *)
(***************************************************************************)
\* store calls that may throw in one behaviour
MaxStoreFailures == 1
\* accepted POST /api/transcribe requests in one behaviour
MaxTranscribeRuns == 2
\* progress writes of the callback that may be waiting in the store at once
MaxPendingWrites == 1
\* progress events a transcription service emits in one run
MaxProgressEvents == 2
\* accepted POST /api/analyze requests in one behaviour
MaxAnalyzeRuns == 2

(***************************************************************************)
(* Values                                                                  *)
(***************************************************************************)
\* no request is answered
NoResponse == [op |-> "none", code |-> 0]

\* the onProgress callback of the pipeline has not been called
NoReport == [stage |-> "none", percentage |-> 0, adapter |-> 0]

\* null, and what an absent field reads as
Null == << >>
\* undefined: an argument left out, a property that is not there
Undefined == <<"undefined">>

PENDING          == "PENDING"
EXTRACTING_AUDIO == "EXTRACTING_AUDIO"
TRANSCRIBING     == "TRANSCRIBING"
ANALYZING        == "ANALYZING"
COMPLETED        == "COMPLETED"
FAILED           == "FAILED"

\* error messages an adapter can report: none, or a text
AdapterErrors == {Undefined, <<"platform not supported">>}

AnalysisFields == {"summary", "topics", "mindmap", "insights"}

(***************************************************************************)
(* Session store                                                           *)
(***************************************************************************)
\* DatabaseService.createPodcastSession: the record of a new session
createPodcastSession ==
    [status |-> PENDING, currentStep |-> Null, progress |-> 0, error |-> Null,
     audioUrl |-> FALSE, transcription |-> Null, transcriptionLanguage |-> Null,
     summary |-> Null, topics |-> Null, mindmap |-> Null, insights |-> Null]

\* the fields of a session that hold text or data, or nothing
NullableFields ==
    {"currentStep", "error", "transcription", "transcriptionLanguage",
     "summary", "topics", "mindmap", "insights"}

\* `v || null`
OrNull(v) == IF v = Undefined THEN Null ELSE v

\* Prisma's update: a value of undefined leaves the field as it is
OrKept(v, old) == IF v = Undefined THEN old ELSE v

\* DatabaseService.updateProcessingStatus: the mock store overwrites status,
\* progress, step and error (currentStep || null, error || null); Prisma is
\* handed {status, progress, currentStep, error} as they come
updateProcessingStatus(s, status, progress, currentStep, error) ==
    IF USE_MOCK_DB
    THEN [s EXCEPT !.status = status, !.progress = progress,
                   !.currentStep = OrNull(currentStep), !.error = OrNull(error)]
    ELSE [s EXCEPT !.status = status, !.progress = progress,
                   !.currentStep = OrKept(currentStep, s.currentStep),
                   !.error = OrKept(error, s.error)]

\* DatabaseService.updatePodcastSession: the mock store does
\* Object.assign(session, data), where a key of data whose value is undefined
\* overwrites the field (it then reads as absent); Prisma is handed data as
\* it comes
updatePodcastSession(s, data) ==
    [f \in DOMAIN s |->
        IF f \notin DOMAIN data THEN s[f]
        ELSE IF f \notin NullableFields THEN data[f]
        ELSE IF USE_MOCK_DB THEN OrNull(data[f])
        ELSE OrKept(data[f], s[f])]

(***************************************************************************)
(* Adapter results                                                         *)
(***************************************************************************)
\* extractor.extractAudio: {success, audioPath?, metadata?, error?}
ExtractionResults ==
    [success : BOOLEAN, audioPath : BOOLEAN, metadata : BOOLEAN,
     error : AdapterErrors]

\* transcriptionService.transcribeAudio: {success, text?, error?}
TranscriptionResults ==
    [success : BOOLEAN, text : BOOLEAN, error : AdapterErrors]

\* a sub-task of the analysis: "data" is {success: true, data} with the
\* fields the prompt asks for, "fallback" is {success: true, data: {answer,
\* confidence}} (the reply was not the JSON asked for), "fail" is
\* {success: false, error}
SubtaskOutcomes(f) ==
    IF f = "summary" THEN {"data", "fallback", "fail"} ELSE {"data", "fail"}

SubtaskOrder == <<"summary", "topics", "mindmap", "insights">>

NoResults == [f \in AnalysisFields |-> "none"]

\* `analysisType === 'comprehensive' || analysisType === f`; the pipeline
\* runs all four sub-tasks
Included(type, f) == type = "comprehensive" \/ type = f

\* what the sub-task for field f can have returned in an analysis of the
\* given type
IncludedOutcomes(type, f) ==
    IF Included(type, f) THEN SubtaskOutcomes(f) ELSE {"none"}

\* what the sub-tasks of one analysis of the given type can have returned
RunResults(type) ==
    [summary  : IncludedOutcomes(type, "summary"),
     topics   : IncludedOutcomes(type, "topics"),
     mindmap  : IncludedOutcomes(type, "mindmap"),
     insights : IncludedOutcomes(type, "insights")]

\* `result.success && result.data` guards the assignment to the results
\* object; the summary field then stores results.summary?.summary, the
\* other three store the data object itself (so that a fallback reply is
\* stored like any other data, and only the summary tells the two apart)
FieldValue(f, outcome, producer) ==
    IF outcome = "data" THEN producer
    ELSE IF outcome = "fallback" /\ f # "summary" THEN producer
    ELSE Undefined

\* detectLanguageFromContext without a language argument: the language is
\* read off the URL in global.currentProcessingUrl ('xiaoyuzhou' or
\* 'bilibili' in it give zh-CN), then off the audio path, else en-US
detectLanguageFromContext(originalUrl) ==
    IF originalUrl = <<"xiaoyuzhou">> THEN <<"zh-CN">> ELSE <<"en-US">>

\* the language of a transcription result, as the service computes it for
\* its mock content at the moment it is called
ResultLanguage == detectLanguageFromContext(currentProcessingUrl)

(***************************************************************************)
(* Scheduling.  With Prisma every store call is input/output, and other    *)
(* requests and runs are served while it is awaited.  The mock store       *)
(* completes a call at once: a handler or a run then goes on, without      *)
(* anything in between, until it awaits an adapter, an import or a timer.  *)
(***************************************************************************)
\* the pipeline run is at a store call, or between two of them
PipeAtStoreCall ==
    pipe.pc \in {"start", "transcribeStart", "analyzeStart", "analysisWrite",
                 "final", "catch", "wrapper"}

\* a transcribe handler or run is at a store call
TrAtStoreCall(run) ==
    run.pc \in {"validated", "startWrite", "completedWrite", "failedWrite",
                "finally"}

\* an analyze handler or run is at a store call (before its first
\* sub-task no adapter is awaited yet)
AnAtStoreCall(run) ==
    \/ run.pc \in {"validated", "startWrite", "finalWrite", "failedWrite"}
    \/ run.pc = "subtask" /\ run.first

\* nothing is in the middle of a chain of calls to the mock store
Quiet ==
    ~USE_MOCK_DB
    \/ /\ ~PipeAtStoreCall
       /\ \A i \in DOMAIN trRuns : ~TrAtStoreCall(trRuns[i])
       /\ \A j \in DOMAIN anRuns : ~AnAtStoreCall(anRuns[j])
       /\ ~cancelWrite

(***************************************************************************)
(* POST /api/process and the pipeline                                      *)
(***************************************************************************)
Options == [transcribeAudio : BOOLEAN, analyzeContent : BOOLEAN]

IdlePipe ==
    [pc |-> "idle", entry |-> "none",
     req |-> [transcribeAudio |-> FALSE, analyzeContent |-> FALSE],
     opts |-> [transcribeAudio |-> FALSE, analyzeContent |-> FALSE],
     extraction |-> Null, transcription |-> Null,
     language |-> Null, results |-> NoResults, threw |-> FALSE,
     success |-> FALSE, error |-> Null]

\* the options processAudioAsync hands to processAudioPipeline for a request
\* body `req`
ProcessOptions(req) == [transcribeAudio |-> TRUE, analyzeContent |-> FALSE]

\* POST of the process route: url is "none" (no url in the body),
\* "unsupported" (detectPlatform returns null) or "ok"
PostStart(url, req) ==
    /\ Quiet
    /\ ~created
    /\ IF url = "none" \/ url = "unsupported"
       THEN /\ resp' = [op |-> "start", code |-> 400]
            /\ UNCHANGED <<envVars, created, session, pipe, failures, transcribeVars, anRuns>>
       ELSE /\ created' = TRUE
            /\ session' = createPodcastSession
            /\ pipe' = [IdlePipe EXCEPT !.pc = "start", !.entry = "http",
                                        !.req = req, !.opts = ProcessOptions(req)]
            /\ currentProcessingUrl' = <<url>>
            /\ resp' = [op |-> "start", code |-> 200]
            /\ UNCHANGED <<USE_MOCK_DB, reported, failures, transcribeVars, anRuns>>

\* processAudioPipeline called with options of the caller's choice on a
\* session the caller created (the exported factory function)
CallPipeline(opts) ==
    /\ Quiet
    /\ ~created
    /\ created' = TRUE
    /\ session' = createPodcastSession
    /\ pipe' = [IdlePipe EXCEPT !.pc = "start", !.entry = "direct",
                                !.req = opts, !.opts = opts]
    /\ currentProcessingUrl' = <<"ok">>
    /\ resp' = NoResponse
    /\ UNCHANGED <<USE_MOCK_DB, reported, failures, transcribeVars, anRuns>>

\* processAudio: the initial status write
PipeStart ==
    /\ pipe.pc = "start"
    /\ session' = updateProcessingStatus(session, EXTRACTING_AUDIO, 0,
                        <<"Starting audio processing pipeline">>, Undefined)
    /\ pipe' = [pipe EXCEPT !.pc = "extracting"]
    /\ resp' = NoResponse
    /\ UNCHANGED <<envVars, created, failures, transcribeVars, anRuns>>

\* the message of the Error processAudio throws on a failed extraction:
\* `Audio extraction failed: ${extractionResult.error}`
ExtractionFailedMessage(e) ==
    <<"Audio extraction failed: ">> \o e

\* a processAudio that does not throw on a failed extraction
AfterExtractionUnchecked(r, opts) ==
    IF opts.transcribeAudio /\ r.audioPath THEN "transcribeStart" ELSE "final"

\* where processAudio goes after extractAudio has returned r
AfterExtraction(r, opts) ==
    IF ~r.success THEN "catch"
    ELSE IF opts.transcribeAudio /\ r.audioPath THEN "transcribeStart"
    ELSE "final"

\* an extractAudio that does not write what the extractor returned
ExtractionNotStored(r) == FALSE

\* extractAudio writes the audio and the metadata to the session:
\* `result.success && result.audioPath && result.metadata`
ExtractionStored(r) == r.success /\ r.audioPath /\ r.metadata

\* extractAudio: the extractor returns r (a thrown error arrives as
\* {success: false, error}); the session gets the audio only when success,
\* audioPath and metadata are all there
PipeExtract(r) ==
    /\ Quiet
    /\ pipe.pc = "extracting"
    /\ session' = IF ExtractionStored(r)
                  THEN updatePodcastSession(session, [audioUrl |-> TRUE])
                  ELSE session
    /\ pipe' = [pipe EXCEPT !.pc = AfterExtraction(r, pipe.opts),
                            !.extraction = <<[success |-> r.success,
                                              audioPath |-> r.audioPath]>>,
                            !.error = IF r.success THEN Null
                                      ELSE ExtractionFailedMessage(r.error)]
    /\ resp' = NoResponse
    /\ UNCHANGED <<envVars, created, failures, transcribeVars, anRuns>>

\* transcribeAudio of the pipeline: the status write that opens the stage
PipeTranscribeStart ==
    /\ pipe.pc = "transcribeStart"
    /\ session' = updateProcessingStatus(session, TRANSCRIBING, 60,
                        <<"Starting transcription">>, Undefined)
    /\ pipe' = [pipe EXCEPT !.pc = "transcribing", !.language = ResultLanguage]
    /\ resp' = NoResponse
    /\ UNCHANGED <<envVars, created, failures, transcribeVars, anRuns>>

\* a processAudio for which a failed transcription is as fatal as a failed
\* extraction
AfterTranscriptionFatal(r, opts) ==
    IF ~r.success THEN "catch"
    ELSE IF opts.analyzeContent /\ r.text THEN "analyzeStart"
    ELSE "final"

\* where processAudio goes after transcribeAudio has returned r:
\* `options.analyzeContent && transcriptionResult?.text`
AfterTranscription(r, opts) ==
    IF opts.analyzeContent /\ r.text THEN "analyzeStart" ELSE "final"

\* transcribeAudio of the pipeline: the service returns r; the transcript is
\* stored when success and text are both there
PipeTranscribe(r) ==
    /\ Quiet
    /\ pipe.pc = "transcribing"
    /\ session' = IF r.success /\ r.text
                  THEN updatePodcastSession(session,
                           [transcription |-> <<"pipeline">>,
                            transcriptionLanguage |-> pipe.language])
                  ELSE session
    /\ pipe' = [pipe EXCEPT !.pc = AfterTranscription(r, pipe.opts),
                            !.language = Null,
                            !.transcription = <<[success |-> r.success,
                                                 text |-> r.text]>>]
    /\ resp' = NoResponse
    /\ UNCHANGED <<envVars, created, failures, transcribeVars, anRuns>>

\* analyzeContent of the pipeline: the status write that opens the stage
PipeAnalyzeStart ==
    /\ pipe.pc = "analyzeStart"
    /\ session' = updateProcessingStatus(session, ANALYZING, 90,
                        <<"Analyzing content">>, Undefined)
    /\ pipe' = [pipe EXCEPT !.pc = "subtasks"]
    /\ resp' = NoResponse
    /\ UNCHANGED <<envVars, created, failures, transcribeVars, anRuns>>

\* analyzeContent: the four sub-tasks, called one after the other whatever
\* the earlier ones returned; no store call lies between them
PipeSubtasks(results) ==
    /\ Quiet
    /\ pipe.pc = "subtasks"
    /\ pipe' = [pipe EXCEPT !.results = results, !.pc = "analysisWrite"]
    /\ resp' = NoResponse
    /\ UNCHANGED <<envVars, created, session, failures, transcribeVars, anRuns>>

\* the data analyzeContent hands to updatePodcastSession
AnalysisData(results, producer) ==
    [f \in AnalysisFields |-> FieldValue(f, results[f], producer)]

\* analyzeContent: the write of the results; when it throws, the catch of
\* analyzeContent only logs
PipeAnalysisWrite ==
    /\ pipe.pc = "analysisWrite"
    /\ \/ /\ session' = updatePodcastSession(session,
                              AnalysisData(pipe.results, <<"pipeline">>))
          /\ pipe' = [pipe EXCEPT !.pc = "final", !.results = NoResults]
          /\ UNCHANGED failures
       \/ /\ failures < MaxStoreFailures
          /\ failures' = failures + 1
          /\ pipe' = [pipe EXCEPT !.pc = "final", !.results = NoResults,
                                  !.threw = TRUE]
          /\ UNCHANGED session
    /\ resp' = NoResponse
    /\ UNCHANGED <<envVars, created, transcribeVars, anRuns>>

\* processAudio: the final update
PipeFinal ==
    /\ pipe.pc = "final"
    /\ session' = updateProcessingStatus(session, COMPLETED, 100,
                        <<"Processing completed successfully">>, Undefined)
    /\ pipe' = [pipe EXCEPT !.pc = "wrapper", !.success = TRUE]
    /\ resp' = NoResponse
    /\ UNCHANGED <<envVars, created, failures, transcribeVars, anRuns>>

\* processAudio: the catch block
PipeCatch ==
    /\ pipe.pc = "catch"
    /\ session' = updateProcessingStatus(session, FAILED, 0,
                        <<"Processing failed">>, pipe.error)
    /\ pipe' = [pipe EXCEPT !.pc = "wrapper", !.success = FALSE]
    /\ resp' = NoResponse
    /\ UNCHANGED <<envVars, created, failures, transcribeVars, anRuns>>

\* processAudioAsync after processAudioPipeline has returned (cleanup only
\* reads): a result without success is written as FAILED once more.  The
\* locals of processAudio are gone; the PipelineResult is what is left
PipeWrapper ==
    /\ pipe.pc = "wrapper"
    /\ session' = IF pipe.entry = "http" /\ ~pipe.success
                  THEN updateProcessingStatus(session, FAILED, 0,
                            <<"Processing failed">>, pipe.error)
                  ELSE session
    /\ pipe' = [IdlePipe EXCEPT !.pc = "done", !.entry = pipe.entry,
                                !.success = pipe.success, !.error = pipe.error]
    /\ resp' = NoResponse
    /\ UNCHANGED <<envVars, created, failures, transcribeVars, anRuns>>

(***************************************************************************)
(* The pipeline on a session that has disappeared from the store: update   *)
(* and updateProcessingStatus throw (the mock store: `Session ${id} not    *)
(* found`; Prisma: the record to update was not found) and create nothing. *)
(***************************************************************************)
\* the message of the error a store call throws for a session that is gone
NotFound == <<"Session not found">>

\* the record of the session is deleted from outside while the pipeline
\* awaits an adapter
SessionVanishes ==
    /\ created
    /\ pipe.pc \in {"extracting", "transcribing"}
    /\ created' = FALSE
    /\ resp' = NoResponse
    /\ UNCHANGED <<envVars, session, pipe, failures, transcribeVars, anRuns>>

\* extractAudio: the extractor returns r; the write of a complete result
\* throws, the catch of extractAudio turns that into {success: false, error}
\* and processAudio throws on it; without a write r is returned as it is
PipeExtractGone(r) ==
    /\ ~created
    /\ pipe.pc = "extracting"
    /\ IF r.success /\ r.audioPath /\ r.metadata
       THEN pipe' = [pipe EXCEPT !.pc = "catch", !.threw = TRUE,
                                 !.extraction = <<[success |-> FALSE,
                                                   audioPath |-> FALSE]>>,
                                 !.error = ExtractionFailedMessage(NotFound)]
       ELSE pipe' = [pipe EXCEPT !.pc = AfterExtraction(r, pipe.opts),
                                 !.extraction = <<[success |-> r.success,
                                                   audioPath |-> r.audioPath]>>,
                                 !.error = IF r.success THEN Null
                                           ELSE ExtractionFailedMessage(r.error)]
    /\ resp' = NoResponse
    /\ UNCHANGED <<envVars, created, session, failures, transcribeVars, anRuns>>

\* transcribeAudio: the status write that opens the stage throws; the catch
\* of transcribeAudio returns {success: false, error} without the service
\* having been called, and processAudio goes on with that result
PipeTranscribeStartGone ==
    /\ ~created
    /\ pipe.pc = "transcribeStart"
    /\ pipe' = [pipe EXCEPT
                   !.pc = AfterTranscription([success |-> FALSE, text |-> FALSE],
                                             pipe.opts),
                   !.threw = TRUE,
                   !.transcription = <<[success |-> FALSE, text |-> FALSE]>>]
    /\ resp' = NoResponse
    /\ UNCHANGED <<envVars, created, session, failures, transcribeVars, anRuns>>

\* transcribeAudio: the service returns r; the write of a transcript throws
\* and the catch of transcribeAudio returns {success: false, error}
PipeTranscribeGone(r) ==
    /\ ~created
    /\ pipe.pc = "transcribing"
    /\ IF r.success /\ r.text
       THEN pipe' = [pipe EXCEPT
                       !.pc = AfterTranscription([success |-> FALSE, text |-> FALSE],
                                                 pipe.opts),
                       !.threw = TRUE, !.language = Null,
                       !.transcription = <<[success |-> FALSE, text |-> FALSE]>>]
       ELSE pipe' = [pipe EXCEPT !.pc = AfterTranscription(r, pipe.opts),
                                 !.language = Null,
                                 !.transcription = <<[success |-> r.success,
                                                      text |-> r.text]>>]
    /\ resp' = NoResponse
    /\ UNCHANGED <<envVars, created, session, failures, transcribeVars, anRuns>>

\* processAudio: the final update throws and the catch block takes over
PipeFinalGone ==
    /\ ~created
    /\ pipe.pc = "final"
    /\ pipe' = [pipe EXCEPT !.pc = "catch", !.threw = TRUE, !.error = NotFound]
    /\ resp' = NoResponse
    /\ UNCHANGED <<envVars, created, session, failures, transcribeVars, anRuns>>

\* processAudio: the write of the catch block throws, processAudio rejects
\* and the catch of processAudioAsync takes over
PipeCatchGone ==
    /\ ~created
    /\ pipe.pc = "catch"
    /\ pipe' = [pipe EXCEPT !.pc = "wrapper", !.threw = TRUE, !.success = FALSE]
    /\ resp' = NoResponse
    /\ UNCHANGED <<envVars, created, session, failures, transcribeVars, anRuns>>

\* processAudioAsync: its write of FAILED throws as well; the rejection is
\* logged by the .catch of the POST handler
PipeWrapperGone ==
    /\ ~created
    /\ pipe.pc = "wrapper"
    /\ pipe' = [IdlePipe EXCEPT !.pc = "done", !.entry = pipe.entry,
                                !.threw = TRUE, !.error = pipe.error]
    /\ resp' = NoResponse
    /\ UNCHANGED <<envVars, created, session, failures, transcribeVars, anRuns>>

PipelineGoneStep ==
    \/ \E r \in ExtractionResults : PipeExtractGone(r)
    \/ PipeTranscribeStartGone
    \/ \E r \in TranscriptionResults : PipeTranscribeGone(r)
    \/ PipeFinalGone
    \/ PipeCatchGone
    \/ PipeWrapperGone

PipelineStep ==
    \/ PipeStart
    \/ \E r \in ExtractionResults : PipeExtract(r)
    \/ PipeTranscribeStart
    \/ \E r \in TranscriptionResults : PipeTranscribe(r)
    \/ PipeFinal
    \/ PipeCatch
    \/ PipeWrapper

\* the analysis stage of the pipeline, which runs for analyzeContent: true
PipelineAnalysisStep ==
    \/ PipeAnalyzeStart
    \/ \E results \in RunResults("comprehensive") : PipeSubtasks(results)
    \/ PipeAnalysisWrite

(***************************************************************************)
(* The transcribe route: POST, the background run, DELETE                  *)
(***************************************************************************)
TrSlots == 1..MaxTranscribeRuns

\* a run of transcribeAudioAsync: where it is, what the service has emitted
\* (pos), the isCancelled flag of its service, and whether a DELETE has
\* cancelled the job since the run was launched
IdleTrRun ==
    [pc |-> "idle", hadTranscription |-> FALSE, pos |-> 0,
     isCancelled |-> FALSE, cancelled |-> FALSE, language |-> Null,
     error |-> Null]

\* the runs a POST has launched and that have not returned
Launched(run) == run.pc \notin {"idle", "validated", "done"}

\* the progress events of mockTranscribeAudio, in the order it emits them
MockStages ==
    << [stage |-> "initializing", percentage |-> 5],
       [stage |-> "uploading",    percentage |-> 20],
       [stage |-> "processing",   percentage |-> 40],
       [stage |-> "processing",   percentage |-> 60],
       [stage |-> "processing",   percentage |-> 80],
       [stage |-> "processing",   percentage |-> 90],
       [stage |-> "complete",     percentage |-> 100] >>

\* the events a run's service emits: the first MaxProgressEvents - 1 of its
\* events and its last one
ProgressStages ==
    SubSeq(MockStages, 1, MaxProgressEvents - 1) \o <<MockStages[Len(MockStages)]>>

TranscriptionErrors ==
    {Undefined, <<"Gemini transcription failed">>, <<"Transcription cancelled">>}

\* what the service of a re-run can return: {success, text?, error?}
ServiceResults == [success : BOOLEAN, text : BOOLEAN, error : TranscriptionErrors]

\* Math.round(progress.percentage * 0.9)
RoundedProgress(percentage) == (percentage * 9 + 5) \div 10

\* the step text the progress callback of the re-run writes
ProgressStep(stage) ==
    CASE stage = "initializing" -> <<"Initializing transcription">>
      [] stage = "uploading"    -> <<"Uploading audio for transcription">>
      [] stage = "processing"   -> <<"Processing transcription">>
      [] stage = "complete"     -> <<"Transcription completed">>
      [] OTHER                  -> <<"Transcribing audio">>

\* the slot a new request takes: slots are taken in order
FreeTrSlot(i) ==
    /\ trRuns[i].pc = "idle"
    /\ \A h \in TrSlots : h < i => trRuns[h].pc # "idle"

\* the check of the POST handler on the session it has read
TranscribeAllowed(s) == s.status = COMPLETED /\ s.audioUrl

\* a POST handler that marks the session active before it checks it
MarkBeforeChecks(flag) == TRUE

\* the mark of the session when POST answers 404 or 400: the handler
\* returns before it gets to activeTranscriptions.set
MarkWhenRejected(flag) == flag

\* POST /api/transcribe, with a session id, up to the read of the session:
\* 404 for an unknown session, 400 while the status is not COMPLETED or
\* there is no audio; otherwise the handler goes on with the session it has
\* read
TrRequest(i) ==
    /\ Quiet
    /\ FreeTrSlot(i)
    /\ IF ~created
       THEN /\ resp' = [op |-> "transcribe", code |-> 404]
            /\ activeTranscriptions' = MarkWhenRejected(activeTranscriptions)
            /\ UNCHANGED trRuns
       ELSE IF ~TranscribeAllowed(session)
       THEN /\ resp' = [op |-> "transcribe", code |-> 400]
            /\ activeTranscriptions' = MarkWhenRejected(activeTranscriptions)
            /\ UNCHANGED trRuns
       ELSE /\ trRuns' = [trRuns EXCEPT ![i] =
                    [IdleTrRun EXCEPT !.pc = "validated",
                         !.hadTranscription = (session.transcription # Null)]]
            /\ resp' = NoResponse
            /\ UNCHANGED activeTranscriptions
    /\ UNCHANGED <<pipeVars, anRuns, cancelWrite, session, activeTranscriptionServices,
                   pendingWrites, failures>>

\* the rest of the POST handler: an existing transcript is cleared, the
\* session is marked active, and transcribeAudioAsync runs up to its first
\* await: it finds the mark it was just given and issues its status write
TrLaunch(i) ==
    /\ trRuns[i].pc = "validated"
    /\ session' = IF trRuns[i].hadTranscription
                  THEN updatePodcastSession(session,
                           [transcription |-> Null, transcriptionLanguage |-> Null])
                  ELSE session
    /\ activeTranscriptions' = TRUE
    /\ trRuns' = [trRuns EXCEPT ![i].pc = "startWrite",
                                ![i].hadTranscription = FALSE]
    /\ resp' = [op |-> "transcribe", code |-> 200]
    /\ UNCHANGED <<pipeVars, anRuns, cancelWrite, activeTranscriptionServices, pendingWrites, failures>>

\* transcribeAudioAsync: the status write that opens the re-run
TrStartWrite(i) ==
    /\ trRuns[i].pc = "startWrite"
    /\ session' = updateProcessingStatus(session, TRANSCRIBING, 0,
                        <<"Starting transcription">>, Undefined)
    /\ trRuns' = [trRuns EXCEPT ![i].pc = "import"]
    /\ resp' = NoResponse
    /\ UNCHANGED <<pipeVars, anRuns, cancelWrite, registryVars, pendingWrites, failures>>

\* transcribeAudioAsync after the import: the service is created and stored
\* for cancellation, the callback is set and transcribeAudio is called; the
\* service starts with its cancellation flag reset
TrAdapterStart(i) ==
    /\ Quiet
    /\ trRuns[i].pc = "import"
    /\ activeTranscriptionServices' = i
    /\ trRuns' = [trRuns EXCEPT ![i].pc = "adapter", ![i].pos = 0,
                                ![i].isCancelled = FALSE,
                                ![i].language = ResultLanguage]
    /\ resp' = NoResponse
    /\ UNCHANGED <<pipeVars, anRuns, cancelWrite, session, activeTranscriptions, pendingWrites, failures>>

\* the write the progress callback issues for an event
ProgressWrite(event) ==
    [progress |-> RoundedProgress(event.percentage),
     currentStep |-> ProgressStep(event.stage)]

\* the callback writes only while the session is marked active
CallbackWrites == activeTranscriptions

\* the service emits its next progress event; the callback is not awaited,
\* so its write reaches the store now or while the run goes on
TrProgress(i) ==
    /\ Quiet
    /\ trRuns[i].pc = "adapter"
    /\ trRuns[i].pos < Len(ProgressStages)
    /\ trRuns' = [trRuns EXCEPT ![i].pos = trRuns[i].pos + 1]
    /\ LET w == ProgressWrite(ProgressStages[trRuns[i].pos + 1]) IN
       IF ~CallbackWrites
       THEN UNCHANGED <<session, pendingWrites>>
       ELSE \/ /\ session' = updateProcessingStatus(session, TRANSCRIBING,
                                    w.progress, w.currentStep, Undefined)
               /\ UNCHANGED pendingWrites
            \/ /\ ~USE_MOCK_DB
               /\ Cardinality(pendingWrites) < MaxPendingWrites
               /\ w \notin pendingWrites
               /\ pendingWrites' = pendingWrites \cup {w}
               /\ UNCHANGED session
    /\ resp' = NoResponse
    /\ UNCHANGED <<pipeVars, anRuns, cancelWrite, registryVars, failures>>

\* a rejection of a promise that has no handler: the process emits
\* 'unhandledRejection'
UnhandledRejection == [op |-> "unhandledRejection", code |-> 0]

\* the service emits its next progress event and the status write of the
\* callback throws (the store cannot be reached): the callback is async and
\* has no try, the service neither awaits nor catches what it returns, so
\* the rejected promise is left without a handler; the run goes on
TrProgressRejected(i) ==
    /\ Quiet
    /\ trRuns[i].pc = "adapter"
    /\ trRuns[i].pos < Len(ProgressStages)
    /\ CallbackWrites
    /\ failures < MaxStoreFailures
    /\ failures' = failures + 1
    /\ trRuns' = [trRuns EXCEPT ![i].pos = trRuns[i].pos + 1]
    /\ resp' = UnhandledRejection
    /\ UNCHANGED <<pipeVars, anRuns, cancelWrite, session, registryVars, pendingWrites>>

\* the store applies a progress write of the callback
ApplyPendingWrite(w) ==
    /\ w \in pendingWrites
    /\ session' = updateProcessingStatus(session, TRANSCRIBING, w.progress,
                        w.currentStep, Undefined)
    /\ pendingWrites' = pendingWrites \ {w}
    /\ resp' = NoResponse
    /\ UNCHANGED <<pipeVars, anRuns, cancelWrite, registryVars, trRuns, failures>>

\* what transcribeAudioAsync does with the result r once the service has
\* returned: nothing when the mark is gone, else the write of the transcript
\* or of the failure
AfterService(r, active) ==
    IF ~active THEN "finally"
    ELSE IF r.success /\ r.text THEN "completedWrite"
    ELSE "failedWrite"

\* the service returns r: with success only after its last event, with
\* "Transcription cancelled" only once cancel() was called on it
TrAdapterReturn(i, r) ==
    /\ Quiet
    /\ trRuns[i].pc = "adapter"
    /\ r.success => trRuns[i].pos = Len(ProgressStages)
    /\ r.success => r.error = Undefined
    /\ r.error = <<"Transcription cancelled">> => trRuns[i].isCancelled
    /\ trRuns' = [trRuns EXCEPT ![i].pc = AfterService(r, activeTranscriptions),
                                ![i].error = IF AfterService(r, activeTranscriptions)
                                                 = "failedWrite"
                                             THEN r.error ELSE Null,
                                ![i].pos = 0]
    /\ resp' = NoResponse
    /\ UNCHANGED <<pipeVars, anRuns, cancelWrite, session, registryVars, pendingWrites, failures>>

\* transcribeAudioAsync: the write of the transcript
TrCompletedWrite(i) ==
    /\ trRuns[i].pc = "completedWrite"
    /\ session' = updatePodcastSession(session,
                      [status |-> COMPLETED, progress |-> 100,
                       currentStep |-> <<"Transcription completed">>,
                       transcription |-> <<"run", i>>,
                       transcriptionLanguage |-> trRuns[i].language])
    /\ trRuns' = [trRuns EXCEPT ![i].pc = "finally"]
    /\ resp' = NoResponse
    /\ UNCHANGED <<pipeVars, anRuns, cancelWrite, registryVars, pendingWrites, failures>>

\* transcribeAudioAsync: the write of the failure
TrFailedWrite(i) ==
    /\ trRuns[i].pc = "failedWrite"
    /\ session' = updateProcessingStatus(session, FAILED, 0,
                        <<"Transcription failed">>, trRuns[i].error)
    /\ trRuns' = [trRuns EXCEPT ![i].pc = "finally", ![i].error = Null]
    /\ resp' = NoResponse
    /\ UNCHANGED <<pipeVars, anRuns, cancelWrite, registryVars, pendingWrites, failures>>

\* a finally block that leaves the maps as they are
RegistryKept(flag, service) == <<flag, service>>

\* the two maps after the finally block: activeTranscriptions.delete and
\* activeTranscriptionServices.delete for the session id
RegistryCleared(flag, service) == <<FALSE, 0>>

\* transcribeAudioAsync: the finally block
TrFinally(i) ==
    /\ trRuns[i].pc = "finally"
    /\ activeTranscriptions' =
           RegistryCleared(activeTranscriptions, activeTranscriptionServices)[1]
    /\ activeTranscriptionServices' =
           RegistryCleared(activeTranscriptions, activeTranscriptionServices)[2]
    /\ trRuns' = [trRuns EXCEPT ![i] = [IdleTrRun EXCEPT !.pc = "done"]]
    /\ resp' = NoResponse
    /\ UNCHANGED <<pipeVars, anRuns, cancelWrite, session, pendingWrites, failures>>

\* a DELETE that takes every session for an active one
CancelFoundAlways == TRUE

\* the test DELETE makes on the map: activeTranscriptions.has(sessionId)
CancelFound == activeTranscriptions

\* DELETE /api/transcribe, with a session id, up to its store write, one
\* DELETE at a time: 404 when the session is not marked active; otherwise
\* the mark is removed, the stored service is cancelled and removed, and the
\* write of the cancelled status is issued
Delete ==
    /\ Quiet
    /\ ~cancelWrite
    /\ IF ~CancelFound
       THEN /\ resp' = [op |-> "delete", code |-> 404]
            /\ UNCHANGED <<registryVars, trRuns, cancelWrite>>
       ELSE /\ activeTranscriptions' = FALSE
            /\ activeTranscriptionServices' = 0
            /\ trRuns' = [i \in TrSlots |->
                            [trRuns[i] EXCEPT
                               !.isCancelled = trRuns[i].isCancelled
                                                 \/ activeTranscriptionServices = i,
                               !.cancelled = trRuns[i].cancelled
                                                 \/ Launched(trRuns[i])]]
            /\ cancelWrite' = TRUE
            /\ resp' = NoResponse
    /\ UNCHANGED <<pipeVars, anRuns, session, pendingWrites, failures>>

\* DELETE: the write of the cancelled status, and the response
DeleteWrite ==
    /\ cancelWrite
    /\ session' = updateProcessingStatus(session, COMPLETED, 60,
                        <<"Transcription cancelled">>, Undefined)
    /\ cancelWrite' = FALSE
    /\ resp' = [op |-> "delete", code |-> 200]
    /\ UNCHANGED <<pipeVars, anRuns, registryVars, trRuns, pendingWrites, failures>>

TranscribeStep ==
    \/ \E i \in TrSlots : TrRequest(i)
    \/ \E i \in TrSlots : TrLaunch(i)
    \/ \E i \in TrSlots : TrStartWrite(i)
    \/ \E i \in TrSlots : TrAdapterStart(i)
    \/ \E i \in TrSlots : TrProgress(i)
    \/ \E w \in pendingWrites : ApplyPendingWrite(w)
    \/ \E i \in TrSlots, r \in ServiceResults : TrAdapterReturn(i, r)
    \/ \E i \in TrSlots : TrCompletedWrite(i)
    \/ \E i \in TrSlots : TrFailedWrite(i)
    \/ \E i \in TrSlots : TrFinally(i)
    \/ Delete
    \/ DeleteWrite

(***************************************************************************)
(* The analyze route: POST and the background run                          *)
(***************************************************************************)
AnSlots == 1..MaxAnalyzeRuns

\* the analysisType of a request: all four sub-tasks, or one of them
AnalysisTypes == {"comprehensive", "topics"}

IdleAnRun ==
    [pc |-> "idle", type |-> "comprehensive", hadAnalysis |-> FALSE, k |-> 1,
     first |-> FALSE]

FreeAnSlot(j) ==
    /\ anRuns[j].pc = "idle"
    /\ \A h \in AnSlots : h < j => anRuns[h].pc # "idle"

\* the first sub-task from the k-th on that the type includes, or
\* Len(SubtaskOrder) + 1
RECURSIVE NextIncluded(_, _)
NextIncluded(type, k) ==
    IF k > Len(SubtaskOrder) THEN k
    ELSE IF Included(type, SubtaskOrder[k]) THEN k
    ELSE NextIncluded(type, k + 1)

\* the session has analysis data: summary || topics || mindmap || insights
HasAnalysis(s) == \E f \in AnalysisFields : s[f] # Null

\* POST /api/analyze, with a session id, up to the read of the session: 404
\* for an unknown session, 400 without a transcript; otherwise the handler
\* goes on with what it has read
AnRequest(j, type) ==
    /\ Quiet
    /\ FreeAnSlot(j)
    /\ IF ~created
       THEN /\ resp' = [op |-> "analyze", code |-> 404]
            /\ UNCHANGED anRuns
       ELSE IF session.transcription = Null
       THEN /\ resp' = [op |-> "analyze", code |-> 400]
            /\ UNCHANGED anRuns
       ELSE /\ anRuns' = [anRuns EXCEPT ![j] =
                    [IdleAnRun EXCEPT !.pc = "validated", !.type = type,
                                      !.hadAnalysis = HasAnalysis(session)]]
            /\ resp' = NoResponse
    /\ UNCHANGED <<pipeVars, session, transcribeVars, failures>>

\* the fields the POST handler clears before a re-analysis
ClearedAnalysis == [f \in AnalysisFields |-> Null]

\* the rest of the POST handler: existing analysis data is cleared and
\* analyzeContentAsync is started
AnLaunch(j) ==
    /\ anRuns[j].pc = "validated"
    /\ session' = IF anRuns[j].hadAnalysis
                  THEN updatePodcastSession(session, ClearedAnalysis)
                  ELSE session
    /\ anRuns' = [anRuns EXCEPT ![j].pc = "startWrite"]
    /\ resp' = [op |-> "analyze", code |-> 200]
    /\ UNCHANGED <<pipeVars, transcribeVars, failures>>

\* analyzeContentAsync: the status write that opens the re-run
AnStartWrite(j) ==
    /\ anRuns[j].pc = "startWrite"
    /\ session' = updateProcessingStatus(session, ANALYZING, 10,
                        <<"Starting AI content analysis">>, Undefined)
    /\ anRuns' = [anRuns EXCEPT
                    ![j].k = NextIncluded(anRuns[j].type, 1),
                    ![j].first = TRUE,
                    ![j].pc = IF NextIncluded(anRuns[j].type, 1) > Len(SubtaskOrder)
                              THEN "resultsWrite" ELSE "subtask"]
    /\ resp' = NoResponse
    /\ UNCHANGED <<pipeVars, transcribeVars, failures>>

\* the progress and the step text written before the k-th sub-task
SubtaskProgress(k) == 20 * k

SubtaskStepText(k) ==
    CASE k = 1 -> <<"Generating summary...">>
      [] k = 2 -> <<"Extracting topics and themes...">>
      [] k = 3 -> <<"Creating mindmap structure...">>
      [] OTHER -> <<"Generating insights and advice...">>

\* analyzeContentAsync: the status write before the k-th sub-task and the
\* call of the sub-task; the next included sub-task follows whatever the
\* call returns.  Nothing reads what the sub-tasks returned before the
\* write of the results, which is where the model draws it.
AnSubtask(j) ==
    /\ anRuns[j].pc = "subtask"
    /\ Quiet \/ anRuns[j].first
    /\ session' = updateProcessingStatus(session, ANALYZING,
                        SubtaskProgress(anRuns[j].k),
                        SubtaskStepText(anRuns[j].k), Undefined)
    /\ LET n == NextIncluded(anRuns[j].type, anRuns[j].k + 1) IN
       anRuns' = [anRuns EXCEPT
                    ![j].k = n,
                    ![j].first = FALSE,
                    ![j].pc = IF n > Len(SubtaskOrder) THEN "resultsWrite"
                              ELSE "subtask"]
    /\ resp' = NoResponse
    /\ UNCHANGED <<pipeVars, transcribeVars, failures>>

\* the data analyzeContentAsync hands to updatePodcastSession
CompletedAnalysisData(results, producer) ==
    [status |-> COMPLETED, progress |-> 100,
     currentStep |-> <<"Analysis completed">>,
     summary  |-> FieldValue("summary", results["summary"], producer),
     topics   |-> FieldValue("topics", results["topics"], producer),
     mindmap  |-> FieldValue("mindmap", results["mindmap"], producer),
     insights |-> FieldValue("insights", results["insights"], producer)]

\* where analyzeContentAsync goes when the write of its results has thrown
AfterResultsWriteThrows == "failedWrite"

\* analyzeContentAsync: the write of the results, which are what the
\* sub-tasks of the run returned, with status COMPLETED; when the write
\* throws, the catch block follows
AnResultsWrite(j) ==
    /\ Quiet
    /\ anRuns[j].pc = "resultsWrite"
    /\ \/ /\ \E results \in RunResults(anRuns[j].type) :
                session' = updatePodcastSession(session,
                              CompletedAnalysisData(results, <<"run", j>>))
          /\ anRuns' = [anRuns EXCEPT ![j].pc = "finalWrite",
                                      ![j].hadAnalysis = FALSE]
          /\ UNCHANGED failures
       \/ /\ failures < MaxStoreFailures
          /\ failures' = failures + 1
          /\ anRuns' = [anRuns EXCEPT ![j].pc = AfterResultsWriteThrows,
                                      ![j].hadAnalysis = FALSE]
          /\ UNCHANGED session
    /\ resp' = NoResponse
    /\ UNCHANGED <<pipeVars, transcribeVars>>

\* analyzeContentAsync: the closing status write
AnFinalWrite(j) ==
    /\ anRuns[j].pc = "finalWrite"
    /\ session' = updateProcessingStatus(session, COMPLETED, 100,
                        <<"Analysis completed successfully">>, Undefined)
    /\ anRuns' = [anRuns EXCEPT ![j] = [IdleAnRun EXCEPT !.pc = "done"]]
    /\ resp' = NoResponse
    /\ UNCHANGED <<pipeVars, transcribeVars, failures>>

\* analyzeContentAsync: the catch block
AnFailedWrite(j) ==
    /\ anRuns[j].pc = "failedWrite"
    /\ session' = updateProcessingStatus(session, FAILED, 0,
                        <<"Analysis failed">>, <<"store error">>)
    /\ anRuns' = [anRuns EXCEPT ![j] = [IdleAnRun EXCEPT !.pc = "done"]]
    /\ resp' = NoResponse
    /\ UNCHANGED <<pipeVars, transcribeVars, failures>>

AnalyzeStep ==
    \/ \E j \in AnSlots, type \in AnalysisTypes : AnRequest(j, type)
    \/ \E j \in AnSlots : AnLaunch(j)
    \/ \E j \in AnSlots : AnStartWrite(j)
    \/ \E j \in AnSlots : AnSubtask(j)
    \/ \E j \in AnSlots : AnResultsWrite(j)
    \/ \E j \in AnSlots : AnFinalWrite(j)
    \/ \E j \in AnSlots : AnFailedWrite(j)

Init ==
    /\ USE_MOCK_DB \in BOOLEAN
    /\ currentProcessingUrl = Null
    /\ reported = NoReport
    /\ created = FALSE
    /\ session = createPodcastSession
    /\ pipe = IdlePipe
    /\ activeTranscriptions = FALSE
    /\ activeTranscriptionServices = 0
    /\ trRuns = [i \in TrSlots |-> IdleTrRun]
    /\ pendingWrites = {}
    /\ cancelWrite = FALSE
    /\ anRuns = [j \in AnSlots |-> IdleAnRun]
    /\ failures = 0
    /\ resp = NoResponse

\* the routes as deployed
Next ==
    \/ \E url \in {"none", "unsupported", "ok"}, req \in Options : PostStart(url, req)
    \/ PipelineStep
    \/ TranscribeStep

Spec == Init /\ [][Next]_vars

\* the job of POST /api/process on its own, its background run scheduled
\* fairly
JobNext ==
    \/ \E url \in {"none", "unsupported", "ok"}, req \in Options : PostStart(url, req)
    \/ PipelineStep

JobFairSpec == Init /\ [][JobNext]_vars /\ WF_vars(PipelineStep)

\* the job and one transcription re-run on a store that can fail while the
\* service reports progress
FaultNext ==
    \/ \E url \in {"none", "unsupported", "ok"}, req \in Options : PostStart(url, req)
    \/ PipelineStep
    \/ TrRequest(1)
    \/ TrLaunch(1)
    \/ TrStartWrite(1)
    \/ TrAdapterStart(1)
    \/ TrProgress(1)
    \/ TrProgressRejected(1)
    \/ \E w \in pendingWrites : ApplyPendingWrite(w)
    \/ \E r \in ServiceResults : TrAdapterReturn(1, r)
    \/ TrCompletedWrite(1)
    \/ TrFailedWrite(1)
    \/ TrFinally(1)

FaultSpec == Init /\ [][FaultNext]_vars

\* what the extractors of the repository return: a success comes with the
\* path of the audio and with the metadata
ExtractorReturns ==
    {r \in ExtractionResults : r.success => (r.audioPath /\ r.metadata)}

\* what the transcription service of the repository returns: a failure
\* carries an error and no text (the text of a success can be empty)
TranscriberReturns ==
    {r \in TranscriptionResults : ~r.success => ~r.text}

\* one run of the pipeline, started by POST /api/process or called with the
\* caller's options, with the extractors and the transcription service of
\* the repository
PipelineNext ==
    \/ \E url \in {"none", "unsupported", "ok"}, req \in Options : PostStart(url, req)
    \/ \E opts \in Options : CallPipeline(opts)
    \/ PipeStart
    \/ \E r \in ExtractorReturns : PipeExtract(r)
    \/ PipeTranscribeStart
    \/ \E r \in TranscriberReturns : PipeTranscribe(r)
    \/ PipelineAnalysisStep
    \/ PipeFinal
    \/ PipeCatch
    \/ PipeWrapper

PipelineSpec == Init /\ [][PipelineNext]_vars

\* the largest percentage an adapter reports
MaxPercentage == 100

\* Math.trunc of t / 10
TruncTenths(t) == t \div 10

\* Math.round of t / 10 for t >= 0: the nearest integer, a half going up
RoundTenths(t) == (t + 5) \div 10

\* the callback extractAudio gives the extractor:
\* Math.round(progress.percentage * 0.6)
ExtractionPercentage(p) == RoundTenths(6 * p)

\* the callback transcribeAudio gives the service:
\* Math.round(60 + (progress.percentage * 0.3))
TranscriptionPercentage(p) == RoundTenths(600 + 3 * p)

\* the extractor reports p: the pipeline hands stage 'extraction' and the
\* scaled percentage to reportProgress (the step text carries p itself)
ReportExtraction(p) ==
    /\ reported' = [stage |-> "extraction",
                    percentage |-> ExtractionPercentage(p), adapter |-> p]
    /\ resp' = NoResponse
    /\ UNCHANGED <<USE_MOCK_DB, currentProcessingUrl, created, session, pipe,
                   failures, transcribeVars, anRuns>>

\* the transcription service reports p
ReportTranscription(p) ==
    /\ reported' = [stage |-> "transcription",
                    percentage |-> TranscriptionPercentage(p), adapter |-> p]
    /\ resp' = NoResponse
    /\ UNCHANGED <<USE_MOCK_DB, currentProcessingUrl, created, session, pipe,
                   failures, transcribeVars, anRuns>>

\* the two progress callbacks of the pipeline, called with every percentage
ScaleNext ==
    \/ \E p \in 0..MaxPercentage : ReportExtraction(p)
    \/ \E p \in 0..MaxPercentage : ReportTranscription(p)

ScaleSpec == Init /\ [][ScaleNext]_vars

\* the URLs of the jobs that other clients start on other sessions
OtherUrls == {"ok", "xiaoyuzhou"}

\* processAudio of a job on another session: it stores its URL in the one
\* global of the process; its session and its map entries are its own
OtherJobStart(url) ==
    /\ Quiet
    /\ currentProcessingUrl' = <<url>>
    /\ resp' = NoResponse
    /\ UNCHANGED <<USE_MOCK_DB, reported, created, session, pipe, failures,
                   transcribeVars, anRuns>>

\* the job of one session while jobs on other sessions start
TwoJobNext ==
    \/ \E url \in {"none", "unsupported", "ok"}, req \in Options : PostStart(url, req)
    \/ PipelineStep
    \/ \E url \in OtherUrls : OtherJobStart(url)

TwoJobSpec == Init /\ [][TwoJobNext]_vars

\* the three routes, with one re-run of the transcription and one of the
\* analysis
RoutesNext ==
    \/ \E url \in {"none", "unsupported", "ok"}, req \in Options : PostStart(url, req)
    \/ PipelineStep
    \/ TrRequest(1)
    \/ TrLaunch(1)
    \/ TrStartWrite(1)
    \/ TrAdapterStart(1)
    \/ TrProgress(1)
    \/ \E w \in pendingWrites : ApplyPendingWrite(w)
    \/ \E r \in ServiceResults : TrAdapterReturn(1, r)
    \/ TrCompletedWrite(1)
    \/ TrFailedWrite(1)
    \/ TrFinally(1)
    \/ \E type \in AnalysisTypes : AnRequest(1, type)
    \/ AnLaunch(1)
    \/ AnStartWrite(1)
    \/ AnSubtask(1)
    \/ AnResultsWrite(1)
    \/ AnFinalWrite(1)
    \/ AnFailedWrite(1)

RoutesSpec == Init /\ [][RoutesNext]_vars

\* the job on a session that can be deleted from outside while it runs
VanishNext ==
    \/ /\ pipe.pc = "idle"
       /\ \E url \in {"none", "unsupported", "ok"}, req \in Options : PostStart(url, req)
    \/ created /\ PipelineStep
    \/ SessionVanishes
    \/ PipelineGoneStep

VanishSpec == Init /\ [][VanishNext]_vars

\* the pipeline with the options of its caller, and the routes that work on
\* its sessions
LibNext ==
    \/ \E url \in {"none", "unsupported", "ok"}, req \in Options : PostStart(url, req)
    \/ \E opts \in Options : CallPipeline(opts)
    \/ PipelineStep
    \/ PipelineAnalysisStep
    \/ AnalyzeStep

LibSpec == Init /\ [][LibNext]_vars

(***************************************************************************)
(* Properties                                                              *)
(***************************************************************************)
\* the extraction of the job POST /api/process started has failed
ExtractionFailed == pipe.entry = "http" /\ pipe.error # Null

\* the pipeline run has returned and processAudioAsync is through
PipelineReturned == pipe.pc = "done"

\* C1: once the extraction of a job started by POST start has failed, the
\* session shows no status but EXTRACTING_AUDIO (until the failure is
\* written) and FAILED, the transcript stays absent, and when the run has
\* returned the status is FAILED: none of TRANSCRIBING, ANALYZING and
\* COMPLETED is written after the failure.
C1_ExtractionFailureIsFatal ==
    ExtractionFailed =>
        /\ session.status \in {EXTRACTING_AUDIO, FAILED}
        /\ session.transcription = Null
        /\ pipe.pc \in {"wrapper", "done"} => session.status = FAILED

\* a job whose extraction failed has run to its end
C1_Witness ==
    /\ ExtractionFailed
    /\ PipelineReturned
    /\ session.status = FAILED
    /\ session.transcription = Null

\* the job was submitted with transcribeAudio and analyzeContent both true,
\* its extraction and its transcription have succeeded and no analysis
\* sub-task has failed
AllRequestedAllSucceeded ==
    /\ pipe.entry = "http"
    /\ pipe.req = [transcribeAudio |-> TRUE, analyzeContent |-> TRUE]
    /\ pipe.extraction = <<[success |-> TRUE, audioPath |-> TRUE]>>
    /\ pipe.transcription = <<[success |-> TRUE, text |-> TRUE]>>
    /\ session.audioUrl
    /\ \A f \in AnalysisFields : pipe.results[f] \notin {"fail", "fallback"}

\* C2: a job submitted with both flags true whose adapters all succeed
\* eventually shows status COMPLETED, progress 100, the transcript and the
\* summary, under fair scheduling of the background run.
C2_Original ==
    AllRequestedAllSucceeded ~>
        (/\ session.status = COMPLETED
         /\ session.progress = 100
         /\ session.transcription # Null
         /\ session.summary # Null)

\* the pipeline runs with transcribeAudio true and analyzeContent false, its
\* extraction has succeeded and its transcription adapter has failed
TranscriptionFailedSoftly ==
    /\ pipe.opts = [transcribeAudio |-> TRUE, analyzeContent |-> FALSE]
    /\ pipe.extraction = <<[success |-> TRUE, audioPath |-> TRUE]>>
    /\ pipe.transcription # Null
    /\ ~pipe.transcription[1].success

\* no POST /api/transcribe has started a re-run on the session
NoTranscribeLaunched == \A i \in TrSlots : trRuns[i].pc \in {"idle", "validated"}

\* C3: in a pipeline run with transcribeAudio true and analyzeContent false
\* whose extraction succeeds and whose transcription adapter fails, the
\* transcript and the error stay absent, the status is never FAILED, and when
\* the run has made its last write the status is COMPLETED (as long as no
\* re-run has been started on the session).
C3_TranscriptionFailureIsSoft ==
    (TranscriptionFailedSoftly /\ NoTranscribeLaunched) =>
        /\ session.transcription = Null
        /\ session.error = Null
        /\ session.status \in {TRANSCRIBING, COMPLETED}
        /\ pipe.pc = "wrapper" => session.status = COMPLETED

\* the run with the failed transcription has made its last write
C3_Witness ==
    /\ TranscriptionFailedSoftly
    /\ pipe.pc = "wrapper"
    /\ session.status = COMPLETED
    /\ session.transcription = Null
    /\ session.error = Null

\* of the four sub-tasks exactly one has returned a failure and the other
\* three have returned success
ExactlyOneFailed(results) ==
    \E f \in AnalysisFields :
        /\ results[f] = "fail"
        /\ \A g \in AnalysisFields \ {f} : results[g] \in {"data", "fallback"}

\* C4: when exactly one of the four sub-tasks of the pipeline's analysis has
\* returned a failure and the other three success, the write of the results
\* leaves exactly the failing sub-task's field absent and the other three
\* present.
C4_Original ==
    [][(/\ pipe.pc = "analysisWrite"
        /\ pipe'.pc = "final"
        /\ failures' = failures
        /\ ExactlyOneFailed(pipe.results))
       => \A f \in AnalysisFields :
              (session'[f] = Null) <=> (pipe.results[f] = "fail")]_vars

\* C5: no analysis run sets the session to FAILED: the status FAILED never
\* comes with the step text of a failed analysis.
C5_Original ==
    ~(session.status = FAILED /\ session.currentStep = <<"Analysis failed">>)

\* a DELETE has cancelled the service of a run that is transcribing and
\* has made its write, and no POST /api/transcribe has come in since
CancelSucceeded ==
    /\ ~cancelWrite
    /\ \E i \in TrSlots :
          /\ trRuns[i].pc = "adapter"
          /\ trRuns[i].isCancelled
          /\ \A h \in TrSlots : h > i => trRuns[h].pc = "idle"

\* the state DELETE leaves: COMPLETED, 'Transcription cancelled', no error
CancelledState ==
    /\ session.status = COMPLETED
    /\ session.currentStep = <<"Transcription cancelled">>
    /\ session.error = Null

\* C6: after a successful DELETE on a session whose transcription run is in
\* flight, and as long as no new POST /api/transcribe comes in, the session
\* shows the cancelled state: the cancelled run writes nothing more.
C6_Original == CancelSucceeded => CancelledState

\* C7: a DELETE for a session that is not marked active is answered 404 and
\* changes neither the session nor the two maps; a DELETE cancels only a
\* session that is marked active, and it removes the mark, so that the next
\* DELETE is answered 404 and leaves the state the first one left.
C7_DeleteWithoutEntry ==
    [][/\ resp' = [op |-> "delete", code |-> 404]
            => (/\ ~activeTranscriptions
                /\ session' = session
                /\ registryVars' = registryVars
                /\ trRuns' = trRuns)
       /\ (~cancelWrite /\ cancelWrite')
            => (/\ activeTranscriptions
                /\ ~activeTranscriptions'
                /\ activeTranscriptionServices' = 0)]_vars

\* a second DELETE is answered 404 on the session a first one cancelled
C7_Witness ==
    /\ resp = [op |-> "delete", code |-> 404]
    /\ session.status = COMPLETED
    /\ session.currentStep = <<"Transcription cancelled">>
    /\ session.progress = 60
    /\ ~activeTranscriptions

\* background runs that have been started on the session and have not
\* returned
PipelineActive == pipe.pc \notin {"idle", "done"}

ActiveTranscribeRuns ==
    {i \in TrSlots : trRuns[i].pc \notin {"idle", "validated", "done"}}

ActiveAnalyzeRuns ==
    {j \in AnSlots : anRuns[j].pc \notin {"idle", "validated", "done"}}

\* C8: at most one background run (pipeline, transcription re-run, analysis
\* re-run) is active on the session at any time.
C8_Original ==
    (IF PipelineActive THEN 1 ELSE 0)
        + Cardinality(ActiveTranscribeRuns)
        + Cardinality(ActiveAnalyzeRuns) <= 1

\* C9: from the moment a POST /api/analyze that found analysis data has
\* returned until its run writes its results, all four analysis fields of
\* the session are absent.
C9_Original ==
    \A j \in AnSlots :
        (/\ anRuns[j].pc \in {"startWrite", "subtask", "resultsWrite"}
         /\ anRuns[j].hadAnalysis)
        => \A f \in AnalysisFields : session[f] = Null

\* C10: the progress of the session decreases, while the job is not in a
\* terminal state, only where a re-run starts, and then to the start bound
\* of the stage: 60 with TRANSCRIBING, 90 with ANALYZING.
C10_Original ==
    [][(/\ session'.progress < session.progress
        /\ session'.status \notin {COMPLETED, FAILED})
       => \/ session'.status = TRANSCRIBING /\ session'.progress = 60
          \/ session'.status = ANALYZING /\ session'.progress = 90]_vars

\* C11: the progress lies in the bounds of the stage the status names:
\* [0,60] with EXTRACTING_AUDIO, [60,90] with TRANSCRIBING, [90,100] with
\* ANALYZING, in pipeline runs and in re-runs alike.
C11_Original ==
    /\ session.status = EXTRACTING_AUDIO => session.progress \in 0..60
    /\ session.status = TRANSCRIBING => session.progress \in 60..90
    /\ session.status = ANALYZING => session.progress \in 90..100

\* C12: a session whose status is COMPLETED has progress 100, after a
\* pipeline run, after a re-run and after a cancellation.
C12_Original ==
    session.status = COMPLETED => session.progress = 100

\* C13: a session whose status is FAILED has an error message, whatever the
\* adapters returned.
C13_Original ==
    session.status = FAILED => session.error # Null

\* C14: the error of the session is present only with status FAILED: every
\* write of another status leaves the error absent.
C14_Original ==
    session.error # Null => session.status = FAILED

\* the extractor of the job POST /api/process started has reported the
\* failure e
ExtractorReported(e) ==
    pipe.entry = "http" /\ pipe.error = ExtractionFailedMessage(e)

\* C15: when the extraction fails with the adapter's message "platform not
\* supported", the error of the FAILED session is that message, verbatim.
C15_Original ==
    (ExtractorReported(<<"platform not supported">>) /\ session.status = FAILED)
        => session.error = <<"platform not supported">>

\* C16: a step that takes the session to FAILED leaves its progress as it
\* was.
C16_Original ==
    [][(session.status # FAILED /\ session'.status = FAILED)
       => session'.progress = session.progress]_vars

\* the first write of a re-run that a POST /api/transcribe has started
RerunStarts ==
    \E i \in TrSlots : trRuns[i].pc = "startWrite" /\ trRuns'[i].pc = "import"

\* C17: FAILED and COMPLETED are terminal: no step changes the status of a
\* FAILED session, and the status of a COMPLETED session changes only where
\* a re-run that a POST request has started makes its first write.
C17_Original ==
    [][/\ session.status = FAILED => session'.status = FAILED
       /\ (session.status = COMPLETED /\ session'.status # COMPLETED)
            => RerunStarts]_vars

\* C18: a run stops as cancelled, skipping the write of what its service
\* returned, only when a DELETE has cancelled its job: that the map holds no
\* entry for the session is not enough.
C18_Original ==
    [][\A i \in TrSlots :
          (trRuns[i].pc = "adapter" /\ trRuns'[i].pc = "finally")
              => trRuns[i].cancelled]_vars

\* the job POST /api/process started is at its start or extracting
JobExtracting ==
    /\ pipe.entry = "http"
    /\ pipe.pc \in {"start", "extracting"}
    /\ session.status \in {PENDING, EXTRACTING_AUDIO}

\* C19: from the response of POST /api/process on, and as long as the job
\* is neither terminal nor cancelled, the session is marked active in the
\* map DELETE looks at.
C19_Original ==
    JobExtracting => activeTranscriptions

\* C20: a run whose job was cancelled before its service was called does
\* not call it.
C20_Original ==
    [][\A i \in TrSlots :
          (trRuns[i].pc = "import" /\ trRuns[i].cancelled)
              => trRuns'[i].pc # "adapter"]_vars

\* every run POST /api/transcribe has launched has returned
NoRunLaunched == \A i \in TrSlots : ~Launched(trRuns[i])

\* C21: when the runs of the session have ended, whatever their outcome
\* (transcript written, failure written, cancelled), and no new run has
\* been started, the maps hold neither a flag nor a service for the session.
C21_RegistryClearedAtEnd ==
    NoRunLaunched => (~activeTranscriptions /\ activeTranscriptionServices = 0)

\* a run that was cancelled before its service was registered has
\* registered it afterwards and has ended
C21_Witness ==
    /\ NoRunLaunched
    /\ \E i \in TrSlots : trRuns[i].pc = "done"
    /\ session.currentStep = <<"Transcription cancelled">>
    /\ ~activeTranscriptions
    /\ activeTranscriptionServices = 0

\* C22: no exception raised in a background run, a store failure inside
\* the progress callback included, leaves the run as a promise rejection
\* that nothing handles.
C22_Original ==
    resp # UnhandledRejection

\* where the pipeline run, when it goes on, calls the store or an adapter
PipeCalls ==
    {"start", "extracting", "transcribeStart", "transcribing", "analyzeStart",
     "subtasks", "analysisWrite", "final", "catch", "wrapper"}

\* C23: a store call for a session that is not in the store throws and
\* creates no record, and a pipeline run that has got such an error makes
\* no further call to the store or to an adapter.
C23_Original ==
    [][/\ (~created /\ pipe.pc # "idle") => ~created'
       /\ (pipe.threw /\ pipe'.pc # pipe.pc) => pipe.pc \notin PipeCalls]_vars

\* this step answers a POST request with 400 or 404
Rejected ==
    /\ resp'.op \in {"start", "transcribe", "analyze"}
    /\ resp'.code \in {400, 404}

\* C24: a POST /api/process, /api/transcribe or /api/analyze that is
\* answered 400 or 404 changes neither the store nor the two maps and
\* starts no background run.
C24_RejectedChangesNothing ==
    [][Rejected =>
          /\ created' = created
          /\ session' = session
          /\ registryVars' = registryVars
          /\ pendingWrites' = pendingWrites
          /\ pipe' = pipe
          /\ trRuns' = trRuns
          /\ anRuns' = anRuns]_vars

\* POST /api/transcribe has been answered 400 for a session whose job is
\* still extracting
C24_Witness ==
    /\ resp = [op |-> "transcribe", code |-> 400]
    /\ created
    /\ session.status = EXTRACTING_AUDIO
    /\ pipe.pc = "extracting"
    /\ ~activeTranscriptions
    /\ \A i \in TrSlots : trRuns[i].pc = "idle"

\* C26: a session whose status is ANALYZING has a transcript, however the
\* analysis runs and the requests for a new transcription (which clear the
\* transcript) interleave.
C26_Original ==
    session.status = ANALYZING => session.transcription # Null

\* C25: the jobs of two sessions share nothing but the store and the two
\* maps, so the language detected for this session's transcript is the one
\* its own URL gives, whatever job starts on another session meanwhile.
C25_Original ==
    session.transcriptionLanguage # Null =>
        session.transcriptionLanguage = detectLanguageFromContext(<<"ok">>)

\* n is x / 10 rounded to the nearest integer, a half going up
NearestToTenths(n, x) == 10 * n - 5 <= x /\ x < 10 * n + 5

\* a report with the overall percentage the scale of its stage gives
WellScaled(rep) ==
    /\ rep.stage = "extraction" =>
          /\ rep.percentage \in 0..60
          /\ NearestToTenths(rep.percentage, 6 * rep.adapter)
    /\ rep.stage = "transcription" =>
          /\ rep.percentage \in 60..90
          /\ NearestToTenths(rep.percentage - 60, 3 * rep.adapter)

\* C27: for an adapter percentage p in 0..100 the pipeline reports
\* round(0.6 p) during extraction and 60 + round(0.3 p) during
\* transcription; the values lie in 0..60 and 60..90 and do not decrease
\* when p does not.
C27_ProgressScale ==
    [][/\ WellScaled(reported')
       /\ (reported.stage = reported'.stage /\ reported.adapter <= reported'.adapter)
              => reported.percentage <= reported'.percentage]_vars

\* the service has reported 5 percent, where 0.3 p is a half
C27_Witness ==
    reported = [stage |-> "transcription", percentage |-> 62, adapter |-> 5]

\* run i takes a step after a DELETE has cancelled it, while a run that was
\* started after the DELETE is in flight
CancelledRunSteps(i) ==
    /\ trRuns[i].cancelled
    /\ trRuns'[i].pc # trRuns[i].pc
    /\ \E j \in TrSlots \ {i} : Launched(trRuns[j]) /\ ~trRuns[j].cancelled

\* C28: when a transcription was cancelled and a new one started while the
\* cancelled run is still in flight, the cancelled run writes neither a
\* transcript nor COMPLETED nor FAILED to the session and removes neither the
\* flag nor the service of the new run from the maps.
C28_Original ==
    [][\A i \in TrSlots :
          CancelledRunSteps(i) =>
              /\ session'.transcription = session.transcription
              /\ session'.status \in {COMPLETED, FAILED} => session' = session
              /\ activeTranscriptions => activeTranscriptions'
              /\ activeTranscriptionServices \notin {0, i}
                    => activeTranscriptionServices' = activeTranscriptionServices]_vars

\* the store applies a progress write that was pending
PendingWriteLands ==
    /\ pendingWrites' # pendingWrites
    /\ pendingWrites' \subseteq pendingWrites

\* C29: a progress write of the callback that is still pending when the run
\* makes its terminal write, or when DELETE writes the cancelled state, does
\* not take effect afterwards: it does not set a COMPLETED or FAILED session
\* back to TRANSCRIBING.
C29_Original ==
    [][(PendingWriteLands /\ session.status \in {COMPLETED, FAILED})
          => session'.status # TRANSCRIBING]_vars

\* the place of a status on the path of a job
StatusRank(status) ==
    CASE status = PENDING -> 0
      [] status = EXTRACTING_AUDIO -> 1
      [] status = TRANSCRIBING -> 2
      [] status = ANALYZING -> 3
      [] status = COMPLETED -> 4
      [] OTHER -> 5

\* this step writes the given status over another one
StatusBecomes(status) ==
    session.status # status /\ session'.status = status

\* the extractor has returned and the audio is in the session
ExtractionRecorded ==
    pipe.extraction # Null /\ session.audioUrl

\* the transcription service has returned and the transcript it gave, if
\* any, is in the session
TranscriptionRecorded ==
    /\ pipe.transcription # Null
    /\ (pipe.transcription[1].success /\ pipe.transcription[1].text)
          => session.transcription = <<"pipeline">>

\* C30: within one run of the pipeline the status moves forward along
\* PENDING, EXTRACTING_AUDIO, TRANSCRIBING, ANALYZING, COMPLETED (stages that
\* were not asked for are skipped) or to FAILED, and nothing follows
\* COMPLETED or FAILED; the status of a stage is written only after the
\* adapter of the stage before has returned and what it returned is in the
\* session (a store write that throws aside).
C30_StagesInOrder ==
    [][/\ session'.status # session.status =>
             /\ session.status \notin {COMPLETED, FAILED}
             /\ \/ session'.status = FAILED
                \/ StatusRank(session'.status) > StatusRank(session.status)
       /\ StatusBecomes(TRANSCRIBING) => ExtractionRecorded
       /\ StatusBecomes(ANALYZING) =>
             /\ ExtractionRecorded
             /\ TranscriptionRecorded
             /\ session.transcription # Null
       /\ StatusBecomes(COMPLETED) =>
             /\ ExtractionRecorded
             /\ pipe.opts.transcribeAudio => TranscriptionRecorded
             /\ session.status = ANALYZING => pipe.results = NoResults
             /\ (session.status = ANALYZING /\ ~pipe.threw)
                   => \E results \in RunResults("comprehensive") :
                         \A f \in AnalysisFields :
                            session[f] =
                               OrNull(AnalysisData(results, <<"pipeline">>)[f])]_vars

\* a run with all three stages has written COMPLETED, the transcript and a
\* summary in the session
C30_Witness ==
    /\ pipe.pc = "wrapper"
    /\ pipe.opts.analyzeContent
    /\ session.status = COMPLETED
    /\ session.audioUrl
    /\ session.transcription = <<"pipeline">>
    /\ session.summary # Null

====
